---- MODULE Spec2Model ----
(***************************************************************************)
(* ChildProcessProxy (packages/stryker/src/child-proxy/ChildProcessProxy.ts)*)
(* as a state machine.                                                     *)
(*                                                                         *)
(* The parent side is one JavaScript thread: an event (a child message,    *)
(* the child's exit) is handled only when the microtask queue `jobs` is    *)
(* empty, while the caller's own code (a proxy method invocation,          *)
(* dispose()) may run at any point, also between two microtasks.           *)
(* Promise reactions (`.then` callbacks) run as microtasks, in the order   *)
(* in which they were queued.  The child is an external collaborator and   *)
(* may send any message of the protocol with any correlation id.           *)
(*                                                                         *)
(* Environment: the child's 'exit' event fires at most once and no child   *)
(* message is delivered after it.  An exception that escapes an event      *)
(* handler is recorded in `thrown`; it leaves the handle's fields as they  *)
(* were.  Task (utils/Task) is a promise with an isResolved flag that      *)
(* resolve and reject both set; a promise settles once.  kill(pid) is      *)
(* counted, and the exit it causes is the ChildExit step.                  *)
(***************************************************************************)
EXTENDS Naturals, Integers, Sequences, FiniteSets, TLC

\* ------------------------------------------------------------------ bounds
MaxCalls == 3       \* proxy method invocations per handle
MaxDisposes == 2    \* dispose() invocations per handle

Methods == {"foo"}          \* method names invoked on the proxy
Results == {1, 2}           \* values carried by a Result message
ErrorTexts == {7}           \* error strings carried by a Rejection message
ExitCodes == {0, 1}         \* exit codes reported by the 'exit' event
CorrelationIds == 0 .. MaxCalls   \* ids a child message may carry
MaxChunks == 12     \* 'data' events of stdout and stderr together
QueueCapacity == 10 \* entries kept in lastMessagesQueue
StdoutChunks == {"out"}     \* chunks read from the child's stdout
StderrChunks == {"err"}     \* chunks read from the child's stderr

VARIABLES
  initTask,         \* this.initTask: the Task resolved by Initialized
  initThens,        \* callbacks registered on initTask.promise while pending
  disposeTask,      \* this.disposeTask: 0 (undefined) or a ref into disposeTasks
  disposeTasks,     \* every Task created by dispose(), by ref
  disposeReturned,  \* the promise each dispose() returned, in invocation order
  currentError,     \* this.currentError: NoError or the cached StrykerError
  workerTasks,      \* this.workerTasks: array of Hole or a ref into tasks
  tasks,            \* every Task created by forward(), by ref
  returned,         \* what each proxy invocation returned, in invocation order
  isDisposed,       \* this.isDisposed
  exitListener,     \* handleUnexpectedExit is subscribed to worker 'exit'
  sent,             \* messages handed to worker.send, in order
  jobs,             \* the microtask queue
  kills,            \* number of kill(worker.pid) issued
  exited,           \* the child process has terminated
  thrown,           \* an exception escaped an event handler
  lastMessagesQueue, \* this.lastMessagesQueue: the last chunks of stdout/stderr
  dataReceived      \* history: every chunk the 'data' listeners received

vars == << lastMessagesQueue, dataReceived, initTask, initThens, disposeTask, disposeTasks, disposeReturned,
           currentError, workerTasks, tasks, returned, isDisposed,
           exitListener, sent, jobs, kills, exited, thrown >>

\* ------------------------------------------------------------------ values
Undefined == [type |-> "undefined", data |-> 0]
ResultValue(v) == [type |-> "value", data |-> v]
ErrorValue(e) == [type |-> "Error", data |-> e]
StrykerError(code) == [type |-> "StrykerError", data |-> code]
NoError == Undefined
Hole == 0

\* ------------------------------------------------------------------ Task
NewTask == [isResolved |-> FALSE, state |-> "pending", value |-> Undefined]

TaskResolve(t, v) ==
  [isResolved |-> TRUE,
   state |-> IF t.state = "pending" THEN "fulfilled" ELSE t.state,
   value |-> IF t.state = "pending" THEN v ELSE t.value]

TaskReject(t, e) ==
  [isResolved |-> TRUE,
   state |-> IF t.state = "pending" THEN "rejected" ELSE t.state,
   value |-> IF t.state = "pending" THEN e ELSE t.value]

\* ------------------------------------------------------------------ messages
InitMessage == [kind |-> "Init", correlationId |-> 0, methodName |-> ""]
CallMessage(id, m) == [kind |-> "Call", correlationId |-> id, methodName |-> m]
DisposeMessage == [kind |-> "Dispose", correlationId |-> 0, methodName |-> ""]

send_Prepend(message) == << message >> \o sent

\* this.worker.send: the channel keeps the send order.
send(message) == Append(sent, message)

\* ------------------------------------------------------------------ jobs
SendCallJob(id, m) == [kind |-> "sendCall", a |-> id, m |-> m]
KillWorkerJob(d) == [kind |-> "killWorker", a |-> d, m |-> ""]
CatchJob(d) == [kind |-> "catch", a |-> d, m |-> ""]

Init ==
  /\ initTask = NewTask
  /\ initThens = << >>
  /\ disposeTask = 0
  /\ disposeTasks = << >>
  /\ disposeReturned = << >>
  /\ currentError = NoError
  /\ workerTasks = << >>
  /\ tasks = << >>
  /\ returned = << >>
  /\ isDisposed = FALSE
  /\ exitListener = TRUE
  /\ sent = << InitMessage >>
  /\ jobs = << >>
  /\ kills = 0
  /\ exited = FALSE
  /\ thrown = FALSE
  /\ lastMessagesQueue = << >>
  /\ dataReceived = << >>

\* ------------------------------------------------------------------ forward
InitPending_AlwaysReady == FALSE

\* The callback of initTask.promise.then waits while the init promise is pending.
InitPending == initTask.state = "pending"

Crashed_Ignored == FALSE

\* `if (this.currentError)`
Crashed == currentError # NoError

PushIndex_Compact(pushed) ==
  Cardinality({ i \in DOMAIN pushed : pushed[i] # Hole }) - 1

\* `this.workerTasks.push(workerTask) - 1`: push returns the new length.
PushIndex(pushed) == Len(pushed) - 1

RejectedPromise(e) == [task |-> 0, correlationId |-> -1, error |-> e]
TaskPromise(ref, id) == [task |-> ref, correlationId |-> id, error |-> Undefined]

\* A proxy method invocation: the closure forward(methodName) returns.
forward(methodName) ==
  /\ Len(returned) < MaxCalls
  /\ IF Crashed
     THEN /\ returned' = Append(returned, RejectedPromise(currentError))
          /\ UNCHANGED << workerTasks, tasks, initThens, jobs >>
     ELSE LET ref == Len(tasks) + 1
              pushed == Append(workerTasks, ref)
              correlationId == PushIndex(pushed)
              callback == SendCallJob(correlationId, methodName)
          IN /\ tasks' = Append(tasks, NewTask)
             /\ workerTasks' = pushed
             /\ IF InitPending
                THEN initThens' = Append(initThens, callback) /\ UNCHANGED jobs
                ELSE jobs' = Append(jobs, callback) /\ UNCHANGED initThens
             /\ returned' = Append(returned, TaskPromise(ref, correlationId))
  /\ UNCHANGED << lastMessagesQueue, dataReceived,
                  initTask, disposeTask, disposeTasks, disposeReturned,
                  currentError, isDisposed, exitListener, sent, kills, exited,
                  thrown >>

\* ------------------------------------------------------------------ listenForMessages
\* this.workerTasks[id] is a Task (neither a hole nor beyond the array).
HasTask(id) == id + 1 <= Len(workerTasks) /\ workerTasks[id + 1] # Hole

TaskAt_Oldest(id) ==
  workerTasks[CHOOSE i \in DOMAIN workerTasks :
                /\ workerTasks[i] # Hole
                /\ \A j \in 1 .. (i - 1) : workerTasks[j] = Hole]

\* The Task a reply with correlation id `id` is routed to.
TaskAt(id) == workerTasks[id + 1]

\* `delete this.workerTasks[id]`: leaves a hole, the length is unchanged.
ArrayDelete(arr, id) == [arr EXCEPT ![id + 1] = Hole]

Reversed(seq) == [i \in 1 .. Len(seq) |-> seq[Len(seq) + 1 - i]]

onInitialized_LastFirst ==
  /\ initTask' = TaskResolve(initTask, Undefined)
  /\ IF InitPending
     THEN jobs' = jobs \o Reversed(initThens) /\ initThens' = << >>
     ELSE UNCHANGED << jobs, initThens >>
  /\ UNCHANGED << lastMessagesQueue, dataReceived,
                  disposeTask, disposeTasks, disposeReturned, currentError,
                  workerTasks, tasks, returned, isDisposed, exitListener,
                  sent, kills, exited, thrown >>

onInitialized ==
  /\ initTask' = TaskResolve(initTask, Undefined)
  /\ IF InitPending
     THEN jobs' = jobs \o initThens /\ initThens' = << >>
     ELSE UNCHANGED << jobs, initThens >>
  /\ UNCHANGED << lastMessagesQueue, dataReceived,
                  disposeTask, disposeTasks, disposeReturned, currentError,
                  workerTasks, tasks, returned, isDisposed, exitListener,
                  sent, kills, exited, thrown >>

onResult(id, v) ==
  /\ IF HasTask(id)
     THEN /\ tasks' = [tasks EXCEPT ![TaskAt(id)] = TaskResolve(@, ResultValue(v))]
          /\ workerTasks' = ArrayDelete(workerTasks, id)
          /\ UNCHANGED thrown
     ELSE \* TypeError: cannot read property 'resolve' of undefined
          /\ thrown' = TRUE
          /\ UNCHANGED << tasks, workerTasks >>
  /\ UNCHANGED << lastMessagesQueue, dataReceived,
                  initTask, initThens, disposeTask, disposeTasks,
                  disposeReturned, currentError, returned, isDisposed,
                  exitListener, sent, jobs, kills, exited >>

onRejection_Fatal(id, e) ==
  /\ IF HasTask(id)
     THEN /\ tasks' = [r \in DOMAIN tasks |->
                         IF tasks[r].isResolved THEN tasks[r]
                         ELSE TaskReject(tasks[r], ErrorValue(e))]
          /\ workerTasks' = ArrayDelete(workerTasks, id)
          /\ UNCHANGED thrown
     ELSE /\ thrown' = TRUE
          /\ UNCHANGED << tasks, workerTasks >>
  /\ UNCHANGED << lastMessagesQueue, dataReceived,
                  initTask, initThens, disposeTask, disposeTasks,
                  disposeReturned, currentError, returned, isDisposed,
                  exitListener, sent, jobs, kills, exited >>

onRejection(id, e) ==
  /\ IF HasTask(id)
     THEN /\ tasks' = [tasks EXCEPT ![TaskAt(id)] = TaskReject(@, ErrorValue(e))]
          /\ workerTasks' = ArrayDelete(workerTasks, id)
          /\ UNCHANGED thrown
     ELSE \* TypeError: cannot read property 'reject' of undefined
          /\ thrown' = TRUE
          /\ UNCHANGED << tasks, workerTasks >>
  /\ UNCHANGED << lastMessagesQueue, dataReceived,
                  initTask, initThens, disposeTask, disposeTasks,
                  disposeReturned, currentError, returned, isDisposed,
                  exitListener, sent, jobs, kills, exited >>

\* The dispose() invocation whose promise chain hangs on dispose Task `ref`.
ThenOf(ref) == CHOOSE d \in DOMAIN disposeReturned : disposeReturned[d].task = ref

onDisposeCompleted ==
  /\ IF disposeTask # 0
     THEN /\ disposeTasks' = [disposeTasks EXCEPT ![disposeTask] = TaskResolve(@, Undefined)]
          /\ IF disposeTasks[disposeTask].state = "pending"
             THEN jobs' = Append(jobs, KillWorkerJob(ThenOf(disposeTask)))
             ELSE UNCHANGED jobs
     ELSE UNCHANGED << disposeTasks, jobs >>
  /\ UNCHANGED << lastMessagesQueue, dataReceived,
                  initTask, initThens, disposeTask, disposeReturned,
                  currentError, workerTasks, tasks, returned, isDisposed,
                  exitListener, sent, kills, exited, thrown >>

\* default: logUnidentifiedMessage
onUnidentified == UNCHANGED vars

\* worker.on('message', ...): one event, handled with the microtask queue empty.
listenForMessages ==
  /\ jobs = << >>
  /\ ~exited
  /\ \/ onInitialized
     \/ \E id \in CorrelationIds, v \in Results : onResult(id, v)
     \/ \E id \in CorrelationIds, e \in ErrorTexts : onRejection(id, e)
     \/ onDisposeCompleted
     \/ onUnidentified

\* ------------------------------------------------------------------ handleUnexpectedExit
\* workerTasks.filter(task => !task.isResolved): filter skips the holes.
Unresolved == { r \in DOMAIN tasks :
                  /\ \E i \in DOMAIN workerTasks : workerTasks[i] = r
                  /\ ~tasks[r].isResolved }

handleUnexpectedExit_ErrorPerTask(code) ==
  /\ currentError' = StrykerError(code)
  /\ tasks' = [r \in DOMAIN tasks |->
                 IF r \in Unresolved
                 THEN TaskReject(tasks[r], StrykerError(code + 1))
                 ELSE tasks[r]]
  /\ isDisposed' = TRUE

handleUnexpectedExit_NoFlag(code) ==
  /\ currentError' = StrykerError(code)
  /\ tasks' = [r \in DOMAIN tasks |->
                 IF r \in Unresolved
                 THEN TaskReject(tasks[r], StrykerError(code))
                 ELSE tasks[r]]
  /\ isDisposed' = isDisposed

handleUnexpectedExit(code) ==
  /\ currentError' = StrykerError(code)
  /\ tasks' = [r \in DOMAIN tasks |->
                 IF r \in Unresolved
                 THEN TaskReject(tasks[r], StrykerError(code))
                 ELSE tasks[r]]
  /\ isDisposed' = TRUE

\* The child terminates; the 'exit' event reaches the listener if subscribed.
ChildExit ==
  /\ jobs = << >>
  /\ ~exited
  /\ exited' = TRUE
  /\ IF exitListener
     THEN \E code \in ExitCodes : handleUnexpectedExit(code)
     ELSE UNCHANGED << currentError, tasks, isDisposed >>
  /\ UNCHANGED << lastMessagesQueue, dataReceived,
                  initTask, initThens, disposeTask, disposeTasks,
                  disposeReturned, workerTasks, returned, exitListener, sent,
                  jobs, kills, thrown >>

\* ------------------------------------------------------------------ dispose
AlreadyDisposed_Ignored == FALSE

\* `if (this.isDisposed)`
AlreadyDisposed == isDisposed

dispose_BehindInit ==
  /\ Len(disposeReturned) < MaxDisposes
  /\ exitListener' = FALSE
  /\ IF AlreadyDisposed
     THEN /\ disposeReturned' = Append(disposeReturned, [task |-> 0, state |-> "fulfilled"])
          /\ UNCHANGED << disposeTask, disposeTasks, sent >>
     ELSE LET ref == Len(disposeTasks) + 1
          IN /\ disposeTasks' = Append(disposeTasks, NewTask)
             /\ disposeTask' = ref
             /\ sent' = IF InitPending THEN sent ELSE send(DisposeMessage)
             /\ disposeReturned' = Append(disposeReturned, [task |-> ref, state |-> "pending"])
  /\ UNCHANGED << lastMessagesQueue, dataReceived,
                  initTask, initThens, currentError, workerTasks, tasks,
                  returned, isDisposed, jobs, kills, exited, thrown >>

dispose_KeepsListener ==
  /\ Len(disposeReturned) < MaxDisposes
  /\ IF AlreadyDisposed
     THEN /\ disposeReturned' = Append(disposeReturned, [task |-> 0, state |-> "fulfilled"])
          /\ UNCHANGED << disposeTask, disposeTasks, sent >>
     ELSE LET ref == Len(disposeTasks) + 1
          IN /\ disposeTasks' = Append(disposeTasks, NewTask)
             /\ disposeTask' = ref
             /\ sent' = send(DisposeMessage)
             /\ disposeReturned' = Append(disposeReturned, [task |-> ref, state |-> "pending"])
  /\ UNCHANGED << lastMessagesQueue, dataReceived,
                  initTask, initThens, currentError, workerTasks, tasks,
                  returned, isDisposed, jobs, kills, exited, thrown,
                  exitListener >>

dispose ==
  /\ Len(disposeReturned) < MaxDisposes
  /\ exitListener' = FALSE
  /\ IF AlreadyDisposed
     THEN /\ disposeReturned' = Append(disposeReturned, [task |-> 0, state |-> "fulfilled"])
          /\ UNCHANGED << disposeTask, disposeTasks, sent >>
     ELSE LET ref == Len(disposeTasks) + 1
          IN /\ disposeTasks' = Append(disposeTasks, NewTask)
             /\ disposeTask' = ref
             /\ sent' = send(DisposeMessage)
             /\ disposeReturned' = Append(disposeReturned, [task |-> ref, state |-> "pending"])
  /\ UNCHANGED << lastMessagesQueue, dataReceived,
                  initTask, initThens, currentError, workerTasks, tasks,
                  returned, isDisposed, jobs, kills, exited, thrown >>

\* ------------------------------------------------------------------ microtasks
\* The callback queued by forward: this.send({kind: Call, ...}).
runSendCall(job) ==
  /\ sent' = send(CallMessage(job.a, job.m))
  /\ jobs' = Tail(jobs)
  /\ UNCHANGED << kills, isDisposed, disposeReturned >>

runKillWorker_FlagOnly(job) ==
  /\ isDisposed' = TRUE
  /\ jobs' = Append(Tail(jobs), CatchJob(job.a))
  /\ UNCHANGED << sent, disposeReturned, kills >>

\* killWorker, run by .then on the dispose Task's promise; its result settles
\* the promise .catch hangs on, which queues the pass-through reaction.
runKillWorker(job) ==
  /\ kills' = kills + 1
  /\ isDisposed' = TRUE
  /\ jobs' = Append(Tail(jobs), CatchJob(job.a))
  /\ UNCHANGED << sent, disposeReturned >>

\* .catch(killWorker) on a fulfilled promise: the returned promise fulfils.
runCatch(job) ==
  /\ disposeReturned' = [disposeReturned EXCEPT ![job.a].state = "fulfilled"]
  /\ jobs' = Tail(jobs)
  /\ UNCHANGED << sent, kills, isDisposed >>

RunJob ==
  /\ jobs # << >>
  /\ LET job == Head(jobs)
     IN \/ job.kind = "sendCall" /\ runSendCall(job)
        \/ job.kind = "killWorker" /\ runKillWorker(job)
        \/ job.kind = "catch" /\ runCatch(job)
  /\ UNCHANGED << lastMessagesQueue, dataReceived,
                  initTask, initThens, disposeTask, disposeTasks, currentError,
                  workerTasks, tasks, returned, exitListener, exited, thrown >>

Invoke == \E m \in Methods : forward(m)

\* ------------------------------------------------------------------ listenToStdoutAndStderr
handleData_ShiftAtCapacity(msg) ==
  /\ jobs = << >>
  /\ Len(dataReceived) < MaxChunks
  /\ LET pushed == Append(lastMessagesQueue, msg)
     IN lastMessagesQueue' =
          IF Len(pushed) >= QueueCapacity THEN Tail(pushed) ELSE pushed
  /\ dataReceived' = Append(dataReceived, msg)
  /\ UNCHANGED << initTask, initThens, disposeTask, disposeTasks,
                  disposeReturned, currentError, workerTasks, tasks, returned,
                  isDisposed, exitListener, sent, jobs, kills, exited, thrown >>

\* handleData: push the chunk, then shift the oldest one out when the queue
\* holds more than 10.
handleData(msg) ==
  /\ jobs = << >>
  /\ Len(dataReceived) < MaxChunks
  /\ LET pushed == Append(lastMessagesQueue, msg)
     IN lastMessagesQueue' =
          IF Len(pushed) > QueueCapacity THEN Tail(pushed) ELSE pushed
  /\ dataReceived' = Append(dataReceived, msg)
  /\ UNCHANGED << initTask, initThens, disposeTask, disposeTasks,
                  disposeReturned, currentError, workerTasks, tasks, returned,
                  isDisposed, exitListener, sent, jobs, kills, exited, thrown >>

\* worker.stdout.on('data', handleData) and worker.stderr.on('data', handleData)
OnStdoutData == \E msg \in StdoutChunks : handleData(msg)
OnStderrData == \E msg \in StderrChunks : handleData(msg)

Next ==
  \/ Invoke
  \/ dispose
  \/ listenForMessages
  \/ ChildExit
  \/ RunJob

Spec == Init /\ [][Next]_vars

\* The output listeners alone: handleData touches nothing but the queue, and
\* nothing else touches the queue.
NextDiag ==
  \/ OnStdoutData
  \/ OnStderrData

SpecDiag == Init /\ [][NextDiag]_vars

\* ================================================================== claims
CallsSent == { i \in DOMAIN sent : sent[i].kind = "Call" }
DisposesSent == { i \in DOMAIN sent : sent[i].kind = "Dispose" }

\* The invocations whose returned promise is still pending.
PendingCalls == { k \in DOMAIN returned :
                    /\ returned[k].task # 0
                    /\ tasks[returned[k].task].state = "pending" }

\* The invocation that was allocated correlation id `id`.
CallOf(id) == CHOOSE k \in DOMAIN returned : returned[k].correlationId = id

InvokeStep == Len(returned') = Len(returned) + 1
DisposeStep == Len(disposeReturned') = Len(disposeReturned) + 1

\* C1: while no Initialized message has been received, no Call message has
\* been sent and none is scheduled to be sent; every call invoked so far is
\* held back, in invocation order, behind the init promise.
C1_NoCallBeforeInitialized ==
  ~initTask.isResolved =>
    /\ CallsSent = {}
    /\ \A j \in DOMAIN jobs : jobs[j].kind # "sendCall"
    /\ Len(initThens) = Len(workerTasks)
    /\ \A k \in DOMAIN initThens : initThens[k].a = k - 1

C1_Witness ==
  /\ ~initTask.isResolved
  /\ Len(initThens) = 2
  /\ CallsSent = {}

\* C2: an invocation made while a fatal error is cached returns a promise
\* rejected with that cached error, allocates no correlation id and no Task,
\* sends no message and schedules none (neither as a microtask nor behind
\* the init promise).
C2_CallAfterCrashRejected ==
  [][ (currentError # NoError /\ InvokeStep) =>
        /\ returned' = Append(returned, RejectedPromise(currentError))
        /\ workerTasks' = workerTasks
        /\ tasks' = tasks
        /\ sent' = sent
        /\ jobs' = jobs
        /\ initThens' = initThens ]_vars

C2_Witness ==
  /\ currentError # NoError
  /\ \E k \in DOMAIN returned :
       returned[k].task = 0 /\ returned[k].error = currentError

\* C3 (as claimed): at the step in which the child terminates, every call
\* pending before the step is settled by it, in any handle state.
C3_ExitSettlesPending ==
  [][ (~exited /\ exited') =>
        \A r \in DOMAIN tasks : tasks'[r].state # "pending" ]_vars

\* C4 (as claimed): every dispose() completes once the child has done its
\* part.  After the child has exited no further message arrives, so a
\* dispose() promise still pending with the microtask queue empty stays
\* pending for ever; the claim therefore requires that none is.
C4_DisposeCompletes ==
  (exited /\ jobs = << >>) =>
    \A d \in DOMAIN disposeReturned : disposeReturned[d].state = "fulfilled"

\* C5 (as claimed): at most one Dispose message is ever sent per handle.
C5_AtMostOneDispose == Cardinality(DisposesSent) <= 1

\* C6: dispose() on a handle whose disposed flag is set returns an already
\* fulfilled promise, sends nothing, kills nothing, schedules nothing and
\* leaves every field of the handle as it was.
C6_DisposeWhenDisposedIsNoOp ==
  [][ (isDisposed /\ DisposeStep) =>
        /\ disposeReturned' =
             Append(disposeReturned, [task |-> 0, state |-> "fulfilled"])
        /\ sent' = sent
        /\ kills' = kills
        /\ jobs' = jobs
        /\ UNCHANGED << isDisposed, currentError, workerTasks, tasks,
                        initTask, initThens, disposeTask, disposeTasks >> ]_vars

C6_Witness ==
  /\ Len(disposeReturned) = 2
  /\ disposeReturned[1].task # 0
  /\ disposeReturned[1].state = "fulfilled"
  /\ disposeReturned[2].task = 0
  /\ disposeReturned[2].state = "fulfilled"

\* C7 (as claimed): a Result or Rejection whose correlation id has no record
\* in the pending-call table raises no error and changes nothing.
C7_UnmatchedReplyIgnored ==
  [][ \A id \in CorrelationIds :
        ( /\ ~HasTask(id)
          /\ jobs = << >> /\ ~exited
          /\ \/ \E v \in Results : onResult(id, v)
             \/ \E e \in ErrorTexts : onRejection(id, e) )
        => UNCHANGED << thrown, workerTasks, tasks, currentError, isDisposed >> ]_vars

\* C8: the calls still pending have pairwise distinct correlation ids, and
\* the id given to each is the index of its own record in the table.
C8_PendingIdsDistinct ==
  /\ \A k1, k2 \in PendingCalls :
       k1 # k2 => returned[k1].correlationId # returned[k2].correlationId
  /\ \A k \in PendingCalls :
       /\ returned[k].correlationId + 1 \in DOMAIN workerTasks
       /\ workerTasks[returned[k].correlationId + 1] = returned[k].task

\* Two calls pending beside the hole left by a record already deleted.
C8_Witness ==
  /\ Cardinality(PendingCalls) = 2
  /\ \E i \in DOMAIN workerTasks : workerTasks[i] = Hole

\* C9: a Result (Rejection) with correlation id i handled while record i
\* exists fulfils with the carried value (rejects with the carried error)
\* exactly the call that was allocated id i, leaves every other call as it
\* was and removes record i only, whatever the arrival order.
C9_RepliesRoutedById ==
  [][ \A id \in CorrelationIds :
        LET ref == returned[CallOf(id)].task
            OthersKept ==
              /\ \A r \in DOMAIN tasks : r # ref => tasks'[r] = tasks[r]
              /\ Len(workerTasks') = Len(workerTasks)
              /\ workerTasks'[id + 1] = Hole
              /\ \A i \in DOMAIN workerTasks :
                   i # id + 1 => workerTasks'[i] = workerTasks[i]
        IN /\ \A v \in Results :
                (HasTask(id) /\ jobs = << >> /\ ~exited /\ onResult(id, v)) =>
                  /\ tasks'[ref] = [isResolved |-> TRUE, state |-> "fulfilled",
                                    value |-> ResultValue(v)]
                  /\ OthersKept
           /\ \A e \in ErrorTexts :
                (HasTask(id) /\ jobs = << >> /\ ~exited /\ onRejection(id, e)) =>
                  /\ tasks'[ref] = [isResolved |-> TRUE, state |-> "rejected",
                                    value |-> ErrorValue(e)]
                  /\ OthersKept ]_vars

\* A call invoked later has been answered while an earlier one is pending.
C9_Witness ==
  \E k1, k2 \in DOMAIN returned :
    /\ k1 < k2
    /\ k1 \in PendingCalls
    /\ returned[k2].task # 0
    /\ tasks[returned[k2].task].state = "fulfilled"
    /\ workerTasks[returned[k2].correlationId + 1] = Hole

\* C10: handling a Rejection for an existing record changes no other call,
\* caches no fatal error, leaves the disposed flag, the init callbacks, the
\* microtask queue and the channel alone and keeps the table's length, so
\* later invocations are allocated and forwarded as before.
C10_RejectionIsLocal ==
  [][ \A id \in CorrelationIds, e \in ErrorTexts :
        (HasTask(id) /\ jobs = << >> /\ ~exited /\ onRejection(id, e)) =>
          /\ \A r \in DOMAIN tasks :
               r # returned[CallOf(id)].task => tasks'[r] = tasks[r]
          /\ currentError' = currentError
          /\ isDisposed' = isDisposed
          /\ Len(workerTasks') = Len(workerTasks)
          /\ UNCHANGED << initTask, initThens, jobs, sent, exitListener >> ]_vars

\* One call rejected by a Rejection, a later one pending and already sent on
\* the channel, the handle healthy.
C10_Witness ==
  /\ currentError = NoError
  /\ ~isDisposed
  /\ \E k1, k2 \in DOMAIN returned :
       /\ k1 < k2
       /\ returned[k1].task # 0
       /\ tasks[returned[k1].task].state = "rejected"
       /\ tasks[returned[k1].task].value.type = "Error"
       /\ k2 \in PendingCalls
       /\ \E i \in CallsSent : sent[i].correlationId = returned[k2].correlationId

CompletedDisposals ==
  { d \in DOMAIN disposeReturned :
      disposeReturned[d].task # 0 /\ disposeReturned[d].state = "fulfilled" }

\* C12: when the promise of a dispose() made on a handle not yet disposed
\* has completed, its dispose Task has settled, kill(pid) has been issued
\* for it and the disposed flag is set; and a kill is issued only by the
\* killWorker reaction of a dispose Task that has already settled, together
\* with setting the flag.
C12_CompletedDisposeHasKilled ==
  /\ [](\A d \in CompletedDisposals :
          /\ disposeTasks[disposeReturned[d].task].state # "pending"
          /\ isDisposed
          /\ kills >= Cardinality(CompletedDisposals))
  /\ [][ kills' # kills =>
           /\ kills' = kills + 1
           /\ isDisposed'
           /\ jobs # << >>
           /\ Head(jobs).kind = "killWorker"
           /\ disposeTasks[disposeReturned[Head(jobs).a].task].state # "pending" ]_vars

C12_Witness ==
  /\ CompletedDisposals # {}
  /\ kills >= 1
  /\ isDisposed

\* dispose() has been invoked, and its first invocation found the handle
\* not disposed (so no crash had been recorded before it).
DisposedWhileHealthy ==
  disposeReturned # << >> /\ disposeReturned[1].task # 0

\* C13: once dispose() has been invoked on a healthy handle, no fatal error
\* is ever cached and no call is ever rejected with a fatal error, whether or
\* not the child terminates afterwards.
C13_NoCrashReportAfterDispose ==
  DisposedWhileHealthy =>
    /\ currentError = NoError
    /\ \A r \in DOMAIN tasks : tasks[r].value.type # "StrykerError"

\* The child has terminated after such a dispose(), with a call pending.
C13_Witness ==
  /\ DisposedWhileHealthy
  /\ exited
  /\ PendingCalls # {}
  /\ currentError = NoError

\* The place in `sent` of the Dispose message of the n-th dispose Task.
DisposeIndex(n) ==
  CHOOSE i \in DisposesSent : Cardinality({ j \in DisposesSent : j < i }) = n - 1

\* The invocations whose Call message was handed to the channel before the
\* Dispose message of dispose() d: they were invoked before that dispose(),
\* and one of them still pending now was pending when it was invoked.
SentBeforeDispose(d) ==
  { k \in DOMAIN returned :
      /\ returned[k].task # 0
      /\ \E i \in CallsSent :
           /\ sent[i].correlationId = returned[k].correlationId
           /\ i < DisposeIndex(disposeReturned[d].task) }

\* C14 (as claimed): when a dispose() made on a healthy handle has
\* completed, no call invoked before it is still pending.
C14_DisposalSettlesOutstanding ==
  \A d \in CompletedDisposals :
    \A k \in SentBeforeDispose(d) : k \notin PendingCalls

\* C15: the channel starts with the Init message sent at construction and
\* holds no other Init: it precedes every Call and every Dispose message.
C15_OneInitFirst ==
  /\ Len(sent) >= 1
  /\ sent[1] = InitMessage
  /\ \A i \in DOMAIN sent : sent[i].kind = "Init" => i = 1

C15_Witness ==
  /\ sent[1].kind = "Init"
  /\ CallsSent # {}
  /\ DisposesSent # {}

\* The lifecycle of the handle: Active (0) until dispose() is first invoked,
\* Disposing (1) until the disposed flag is set, then Disposed (2).
Stage == IF isDisposed THEN 2 ELSE IF disposeReturned # << >> THEN 1 ELSE 0
ExitStep == ~exited /\ exited'

LastOf(seq, n) ==
  IF Len(seq) <= n THEN seq ELSE SubSeq(seq, Len(seq) - n + 1, Len(seq))

\* C17: the diagnostic buffer holds at most 10 entries, and they are the
\* most recent (up to 10) chunks received from stdout and stderr, in arrival
\* order.
C17_QueueHoldsLastTen ==
  /\ Len(lastMessagesQueue) <= 10
  /\ lastMessagesQueue = LastOf(dataReceived, 10)

\* Twelve chunks from both streams have arrived; the two oldest are gone.
C17_Witness ==
  /\ Len(dataReceived) = 12
  /\ Len(lastMessagesQueue) = 10
  /\ dataReceived[1] # dataReceived[3]
  /\ \E i, j \in DOMAIN lastMessagesQueue :
       lastMessagesQueue[i] = "out" /\ lastMessagesQueue[j] = "err"

\* The invocations that were accepted: given a Task and a correlation id.
AcceptedCalls == { k \in DOMAIN returned : returned[k].task # 0 }

\* C18: the correlation id of an accepted call is the number of calls
\* accepted before it: 0, 1, 2, ... in invocation order, whatever records
\* have been deleted in between.
C18_IdsCountAcceptedCalls ==
  \A k \in AcceptedCalls :
    returned[k].correlationId = Cardinality({ j \in AcceptedCalls : j < k })

\* Three calls with ids 0, 1, 2 although a record has been deleted.
C18_Witness ==
  /\ Cardinality(AcceptedCalls) = 3
  /\ \E i \in DOMAIN workerTasks : workerTasks[i] = Hole
  /\ \E k \in PendingCalls : returned[k].correlationId = 2

\* C19: the Call messages on the channel carry the correlation ids
\* 0, 1, 2, ... in this order: each call is sent after all calls with a
\* smaller id, whether it was queued behind the init promise or not.
C19_CallsSentInInvocationOrder ==
  \A i \in CallsSent :
    sent[i].correlationId = Cardinality({ j \in CallsSent : j < i })

C19_Witness ==
  /\ Cardinality(CallsSent) = 3
  /\ \A i, j \in CallsSent :
       i < j => sent[i].correlationId < sent[j].correlationId

\* C20: dispose() on a handle not yet disposed hands the Dispose message to
\* the channel in the same step, also while Initialized has not been
\* received; the calls queued behind the init promise stay queued, and as
\* no Call has been sent by then, each is sent after the Dispose.
C20_DisposeNotGatedOnInit ==
  [][ (~isDisposed /\ DisposeStep) =>
        /\ sent' = Append(sent, DisposeMessage)
        /\ initThens' = initThens
        /\ jobs' = jobs
        /\ initTask' = initTask
        /\ (~initTask.isResolved =>
              /\ CallsSent = {}
              /\ Len(initThens) = Len(workerTasks)) ]_vars

\* The Dispose message was sent before any Call, and a Call followed it
\* once Initialized had arrived.
C20_Witness ==
  /\ Len(sent) >= 3
  /\ sent[2].kind = "Dispose"
  /\ sent[3].kind = "Call"
  /\ initTask.isResolved

====
